---- MODULE Spec2Model ----
(***************************************************************************)
(* Model of the NUC7 authentication bridge (alivirgo/nuc7-website).        *)
(*                                                                         *)
(* The repository holds three Worker handlers:                             *)
(*   "kv"  src/auth-bridge.js lines 1-156: the KV-backed handler (/track,  *)
(*         /stats, /send-registration, /get-questions);                    *)
(*   "v2"  src/auth-bridge.js lines 167-248: /get-questions and            *)
(*         /validate-quiz;                                                 *)
(*   "p0"  src/unnamed/part_000: stubbed /track and /stats, and the same   *)
(*         /get-questions and /validate-quiz as "v2".                      *)
(*                                                                         *)
(* Spec      the hit ledger of the KV-backed handler: up to MaxTrack POST  *)
(*           /track requests running in two request slots against the      *)
(*           key-value store, every behaviour starting from the empty      *)
(*           store.  Requests first run one at a time; once a request      *)
(*           starts while another is in flight, at most MaxConc further    *)
(*           requests start, interleaved at every store call.              *)
(* SpecMix   the counters of the KV-backed handler: a few POST /track and  *)
(*           POST /send-registration requests, interleaved at every store  *)
(*           call without restriction, from the empty store.               *)
(* SpecQuiz  the quiz endpoints of the three handlers against a fetched    *)
(*           question bank: GET /get-questions and POST /validate-quiz.    *)
(* SpecStats the ledger filled by /track requests run one at a time and    *)
(*           read by POST /stats requests of "kv" and "p0", which check    *)
(*           the password against vault.json.                              *)
(* SpecServe every route of the three handlers, one request at a time,     *)
(*           with vault fetches, store calls and mail calls that may fail. *)
(***************************************************************************)
EXTENDS Integers, Sequences, FiniteSets

VARIABLES
    env,          \* the Worker's bindings: which of them are configured
    kv,           \* env.NUC7_STATS: the stored value of each key
    pc,           \* per request slot: the await the request is suspended at
    hitData,      \* per slot: the parsed body of a /track request
    hit,          \* per slot: the local `hit`
    hitsRead,     \* per slot: what get('hits') returned (with `|| []` applied)
    hits,         \* per slot: the local `hits` after unshift and pop
    totalViews,   \* per slot: the local `totalViews`
    totalReg,     \* per slot: the local `totalReg`
    resp,         \* per slot: the response of the slot's last request
    now,          \* the clock: the value the next `new Date()` returns
    nTrack,       \* /track requests received so far
    nReg,         \* /send-registration requests received so far
    okTrack,      \* /track requests answered {success: true}
    okReg,        \* /send-registration requests answered {success: true}
    mailsSent,    \* calls made to the mail API
    load,         \* what the behaviour may hold: [track, reg, conc] requests, and
                  \* [free] answers in a free answer list
    concLeft,     \* requests that may still start once requests overlap
    \* ---- the quiz endpoints (one request at a time) ----
    bank,         \* questions.json in the vault
    handler,      \* which of the three handlers serves the quiz request
    qpc,          \* the position of the quiz request
    email,        \* the body's email
    answers,      \* the body's answers
    questions,    \* the local `questions` / `allQuestions`
    swapsLeft,    \* out-of-order moves the sort may still make
    score,        \* the local `score`
    qresp,        \* the response of the quiz request
    \* ---- POST /stats (served by the same single request) ----
    vaultFile,    \* vault.json in the vault
    stats,        \* the locals of the /stats request
    payload       \* the stats payload of the response, if it carries one

ledgerVars == <<env, kv, pc, hitData, hit, hitsRead, hits, totalViews, totalReg,
                resp, now, nTrack, nReg, okTrack, okReg, mailsSent, load,
                concLeft>>
quizVars == <<bank, handler, qpc, email, answers, questions, swapsLeft, score, qresp>>
statsVars == <<vaultFile, stats, payload>>
vars == <<ledgerVars, quizVars, statsVars>>

-----------------------------------------------------------------------------
(* Bounds of the model. *)

\* Spec: /track requests in one behaviour (enough to fill the ledger and evict).
MaxTrack == 52
\* Spec: requests that start from the first overlapping request on.
MaxConc == 2
\* SpecMix: /track requests in one behaviour of interleaved requests.
MaxMixTrack == 3
\* SpecMix: /send-registration requests in one behaviour of interleaved requests.
MaxReg == 2
\* SpecMix: requests of either kind in one behaviour of requests run one at a time.
MaxSeq == 12
\* SpecQuiz: questions in the vault's bank (one more than a quiz holds).
MaxBank == 11
\* SpecQuiz: elements the comparator sort may leave exchanged, counted in swaps.
MaxSwaps == 2
\* SpecQuiz: entries of an answer list that is not an answer sheet.
MaxFree == 4
\* SpecServe: /track requests in one behaviour.
MaxServeTrack == 2
\* SpecServe: /send-registration requests in one behaviour.
MaxServeReg == 1

Slots == {1, 2}

-----------------------------------------------------------------------------
(* Values. *)

\* A missing value (null / undefined) is the empty tuple, a present value v is <<v>>.
None == <<>>
Some(v) == <<v>>

\* if (hits.length > 50) hits.pop()
Capacity == 50

\* The body of the n-th /track request: distinct paths; some visitors send no
\* referrer, some no user agent.
TrackBody(n) ==
    [path |-> n,
     referrer |-> IF n % 2 = 0 THEN None ELSE Some("https://example.org/"),
     userAgent |-> IF n % 3 = 0 THEN None ELSE Some("Mozilla/5.0")]

\* x || dflt, for an optional string x
OrDefault(x, dflt) == IF x = None THEN dflt ELSE x[1]

\* const hit = { path, referrer || 'Direct', userAgent || 'Unknown', timestamp }
MakeHit(data, timestamp) ==
    [path |-> data.path,
     referrer |-> OrDefault(data.referrer, "Direct"),
     userAgent |-> OrDefault(data.userAgent, "Unknown"),
     timestamp |-> timestamp]

\* await env.NUC7_STATS.get('hits', 'json') || []
OrEmpty(v) == IF v = None THEN <<>> ELSE v[1]

\* Mutant: push instead of unshift.
Unshift_push(arr, x) == arr \o <<x>>

\* hits.unshift(hit)
Unshift(arr, x) == <<x>> \o arr

\* Mutant: the pop is missing.
PopIfOver_never(arr) == arr

\* Mutant: shift instead of pop.
PopIfOver_shift(arr) == IF Len(arr) > Capacity THEN Tail(arr) ELSE arr

\* Mutant: >= instead of >.
PopIfOver_atCapacity(arr) ==
    IF Len(arr) >= Capacity THEN SubSeq(arr, 1, Len(arr) - 1) ELSE arr

\* if (hits.length > 50) hits.pop()
PopIfOver(arr) == IF Len(arr) > Capacity THEN SubSeq(arr, 1, Len(arr) - 1) ELSE arr

\* Number.prototype.toString(): the decimal digits, most significant first.
RECURSIVE NumToString(_)
NumToString(n) == IF n < 10 THEN <<n>> ELSE NumToString(n \div 10) \o <<n % 10>>

\* The number a string of decimal digits denotes.
RECURSIVE DigitsValue(_)
DigitsValue(s) ==
    IF s = <<>> THEN 0 ELSE 10 * DigitsValue(SubSeq(s, 1, Len(s) - 1)) + s[Len(s)]

\* Mutant: only the first digit is read.
ParseInt_firstDigit(v) == IF v = None THEN None ELSE Some(v[1][1])

\* parseInt(v): NaN (None) for null, the number for a string of digits.
ParseInt(v) == IF v = None THEN None ELSE Some(DigitsValue(v[1]))

\* x || 0, for x a number or NaN
OrZero(x) == IF x = None \/ x[1] = 0 THEN 0 ELSE x[1]

\* Mutant: the counter is raised by two.
Incremented_two(stored) == OrZero(ParseInt(stored)) + 2

\* (parseInt(await env.NUC7_STATS.get(key)) || 0) + 1
Incremented(stored) == OrZero(ParseInt(stored)) + 1

NoHit == [path |-> 0, referrer |-> "", userAgent |-> "", timestamp |-> 0]
NoBody == [path |-> 0, referrer |-> None, userAgent |-> None]
NoResp == [status |-> 0, body |-> "none"]

-----------------------------------------------------------------------------
(* The quiz endpoints: values. *)

\* if (score >= 7)
PassThreshold == 7

\* .slice(0, 10)
SampleSize == 10

\* The i-th question of the vault's questions.json.
Question(i) ==
    [id |-> i, question |-> "prompt", options |-> <<"a", "b">>, answer |-> i % 2]

\* A bank of n questions with the ids 1..n.
BankOf(n) == [i \in 1..n |-> Question(i)]

\* A bank in which two questions share the id 1 and differ in the answer.
DupBank == <<[Question(1) EXCEPT !.answer = 1], [Question(1) EXCEPT !.answer = 0]>>

Banks == {BankOf(n) : n \in 0..MaxBank} \cup {DupBank}

UniqueIds(b) == \A i, j \in 1..Len(b) : b[i].id = b[j].id => i = j

\* What `await vaultRes.json()` yields: the bank, an array, or GitHub's error
\* object when the fetch ended with a non-success status.
ArrayOf(items) == [array |-> TRUE, items |-> items]
ErrorObject == [array |-> FALSE, items |-> <<>>]

\* The ids and choices a client may send.
AnswerIds == {1, 2, 99}
Choices == {0, 1}
Answer(id, choice) == [id |-> id, choice |-> choice]

\* An answer sheet: one answer, right or wrong, to each of the first ten
\* questions of the bank, in the bank's order.
Sheets(b) ==
    LET n == IF Len(b) < SampleSize THEN Len(b) ELSE SampleSize
    IN  {[i \in 1..n |-> Answer(b[i].id, c[i])] : c \in [1..n -> Choices]}

\* Any list of up to n answers: unknown ids, repeated ids, any order.
FreeLists(n) ==
    UNION {[1..k -> {Answer(1, 0), Answer(1, 1), Answer(2, 0), Answer(99, 0)}] :
           k \in 0..n}

\* An address btoa accepts, and one with a character outside Latin-1.
Emails == {"ada@nuc7.com", "pawe(U+0142)@nuc7.com"}
IsLatin1(e) == e # "pawe(U+0142)@nuc7.com"

\* questions.find(v => v.id === id): the index of the first match, 0 for undefined.
Find(qs, id) ==
    IF \E i \in 1..Len(qs) : qs[i].id = id
    THEN CHOOSE i \in 1..Len(qs) :
             qs[i].id = id /\ \A j \in 1..(i - 1) : qs[j].id # id
    ELSE 0

\* Mutant: the choice is not compared.
Matches_idOnly(qs, ua) == Find(qs, ua.id) # 0

\* const q = questions.find(...); q && q.answer === ua.choice
Matches(qs, ua) ==
    LET i == Find(qs, ua.id) IN i # 0 /\ qs[i].answer = ua.choice

\* let score = 0; answers.forEach(ua => { ...; if (...) score++ })
RECURSIVE ForEachScore(_, _, _, _)
ForEachScore(qs, as, i, acc) ==
    IF i > Len(as) THEN acc
    ELSE ForEachScore(qs, as, i + 1, IF Matches(qs, as[i]) THEN acc + 1 ELSE acc)

ScoreOf(qs, as) == ForEachScore(qs, as, 1, 0)

\* Mutant: > instead of >=.
Passed_strict(sc) == sc > PassThreshold

\* score >= 7
Passed(sc) == sc >= PassThreshold

\* btoa(`${email}:${Date.now()}:passed`): the encoded string.
Btoa(e, t) == [encoding |-> "base64", email |-> e, time |-> t, marker |-> "passed"]

NoQuizResp ==
    [status |-> 0, kind |-> "none", success |-> FALSE, score |-> 0, token |-> None,
     error |-> None, body |-> <<>>]

\* The catch block: status 500, { error: err.message }.
Caught(msg) == [NoQuizResp EXCEPT !.status = 500, !.kind = "error", !.error = Some(msg)]

\* The response of /validate-quiz for a computed score.
QuizResponse(e, sc, t) ==
    IF Passed(sc)
    THEN IF IsLatin1(e)
         THEN [NoQuizResp EXCEPT !.status = 200, !.kind = "quiz", !.success = TRUE,
                                 !.score = sc, !.token = Some(Btoa(e, t))]
         ELSE Caught("btoa: invalid character")
    ELSE [NoQuizResp EXCEPT !.status = 200, !.kind = "quiz", !.success = FALSE,
                            !.score = sc, !.error = Some("Failed")]

\* Mutant: one question too few.
Slice_short(arr, lo, hi) == SubSeq(arr, lo + 1, IF hi - 1 < Len(arr) THEN hi - 1 ELSE Len(arr))

\* arr.slice(lo, hi)
Slice(arr, lo, hi) == SubSeq(arr, lo + 1, IF hi < Len(arr) THEN hi ELSE Len(arr))

\* q => ({ id: q.id, question: q.question, options: q.options })
Sanitize(q) == [id |-> q.id, question |-> q.question, options |-> q.options]

\* What each handler's /get-questions returns for the shuffled array: the
\* KV-backed handler the slice itself, the other two the mapped slice.
Selected(h, shuffled) ==
    LET sel == Slice(shuffled, 0, SampleSize)
    IN  IF h = "kv" THEN sel ELSE [i \in 1..Len(sel) |-> Sanitize(sel[i])]

\* arr with the elements at i and j exchanged
Swap(arr, i, j) == [arr EXCEPT ![i] = arr[j], ![j] = arr[i]]

-----------------------------------------------------------------------------
(* POST /stats: values. *)

\* The passwords a client may send: none, the administrator's, and the
\* administrator's in the wrong case.
Passwords == {"", "nuc7-admin", "NUC7-ADMIN"}

\* crypto.subtle.digest('SHA-256', ...) rendered as lower-case hex, two digits
\* per byte.
Sha256Hex(pw) ==
    CASE pw = "" ->
           "e3b0c44298fc1c149afbf4c8996fb92427ae41e4649b934ca495991b7852b855"
      [] pw = "nuc7-admin" ->
           "481478d06cf4fb6fbe6720375673d65aae20391b8960e0b10b58a309ab9da86b"
      [] pw = "NUC7-ADMIN" ->
           "89196ec6b03be5b384a790a8fb74e9b49e7d28e6c72d8ae985ce668e562db6c5"

\* vault.json with the given adminPasswordHash (None: the field is missing).
VaultOf(h) == [adminPasswordHash |-> h]

\* The vault files: the administrator's digest; the same digest written in
\* upper case; no digest at all.
VaultFiles ==
    {VaultOf(Some(Sha256Hex("nuc7-admin"))),
     VaultOf(Some("481478D06CF4FB6FBE6720375673D65AAE20391B8960E0B10B58A309AB9DA86B")),
     VaultOf(None)}

\* What `await vaultRes.json()` yields after a non-success status: GitHub's
\* error object, which has no adminPasswordHash.
VaultError == VaultOf(None)

\* Mutant: a vault without a digest admits everybody.
HashMatches_open(hex, v) == v.adminPasswordHash \in {None, Some(hex)}

\* hashHex === vault.adminPasswordHash
HashMatches(hex, v) == v.adminPasswordHash = Some(hex)

Max(a, b) == IF a > b THEN a ELSE b

\* Mutant: the quotient is rounded up.
ActiveUsers_ceil(n) == Max(1, (n + 3) \div 4)

\* Math.max(1, Math.floor(hits.length / 4))
ActiveUsers(n) == Max(1, n \div 4)

\* await env.NUC7_STATS.get(key) || '0'
OrZeroString(v) == IF v = None THEN <<0>> ELSE v[1]

\* The body of the KV-backed handler's stats response.
StatsPayload(h, views, regs) ==
    [activeUsers |-> ActiveUsers(Len(h)), pageViews |-> views,
     totalRegistrations |-> regs, hits |-> h]

\* The body of the stub's stats response: simulated figures.
SimulatedStats(t) ==
    [activeUsers |-> 42, pageViews |-> 1248, passRate |-> "82%",
     recentHits |-> <<[time |-> t, path |-> "/", ref |-> "Google"],
                      [time |-> t, path |-> "/quiz.html", ref |-> "Direct"]>>]

\* The locals of a /stats request; `reads` counts its store gets.
NoStats ==
    [password |-> "", vaultRes |-> None, vault |-> None, hashHex |-> None,
     hits |-> <<>>, totalViews |-> <<>>, reads |-> 0]

\* The vault's answer as the handler sees it: vaultRes.ok.
VaultRes(ok) == Some([ok |-> ok])

\* new Response('Unauthorized', { status: 401 })
Unauthorized == [NoQuizResp EXCEPT !.status = 401, !.kind = "unauthorized"]

\* An exception thrown outside every try block: the handler's promise rejects
\* and the Worker runtime, not the handler, answers.
Uncaught == [NoQuizResp EXCEPT !.status = 500, !.kind = "uncaught"]

-----------------------------------------------------------------------------
(* The quiz endpoints' initial, idle state. *)

QuizIdle ==
    /\ bank = <<>>
    /\ handler = "none"
    /\ qpc = "idle"
    /\ email = "none"
    /\ answers = <<>>
    /\ questions = ArrayOf(<<>>)
    /\ swapsLeft = 0
    /\ score = 0
    /\ qresp = NoQuizResp
    /\ vaultFile = VaultOf(Some(Sha256Hex("nuc7-admin")))
    /\ stats = NoStats
    /\ payload = None

-----------------------------------------------------------------------------
(* The analytics ledger: POST /track and POST /send-registration of the    *)
(* KV-backed handler.                                                      *)

InFlight(p) == pc[p] \notin {"idle", "done"}

\* A request is served in the lowest free slot (slots are interchangeable).
FreeSlot(p) == ~InFlight(p) /\ \A q \in Slots : q < p => InFlight(q)

\* No request has overlapped another so far, and none is in flight.
Alone == concLeft = load.conc /\ \A q \in Slots : ~InFlight(q)

\* The store holds no hits (the key is absent, or holds an empty list) and no
\* counters; no request has arrived.
StoreEmpty ==
    /\ kv \in [hits : {None, Some(<<>>)}, totalViews : {None}, totalReg : {None}]
    /\ pc = [p \in Slots |-> "idle"]
    /\ hitData = [p \in Slots |-> NoBody]
    /\ hit = [p \in Slots |-> NoHit]
    /\ hitsRead = [p \in Slots |-> <<>>]
    /\ hits = [p \in Slots |-> <<>>]
    /\ totalViews = [p \in Slots |-> 0]
    /\ totalReg = [p \in Slots |-> 0]
    /\ resp = [p \in Slots |-> NoResp]
    /\ now = 1
    /\ nTrack = 0
    /\ nReg = 0
    /\ okTrack = 0
    /\ okReg = 0
    /\ mailsSent = 0

Init ==
    /\ env \in [NUC7_STATS : BOOLEAN, SENDGRID_API_KEY : {FALSE}]
    /\ load = [track |-> MaxTrack, reg |-> 0, conc |-> MaxConc, free |-> 0]
    /\ concLeft = load.conc
    /\ StoreEmpty
    /\ QuizIdle

InitMix ==
    /\ env \in [NUC7_STATS : BOOLEAN, SENDGRID_API_KEY : BOOLEAN]
    /\ load \in {[track |-> MaxMixTrack, reg |-> MaxReg, conc |-> MaxMixTrack + MaxReg,
                  free |-> 0],
                 [track |-> MaxSeq, reg |-> MaxSeq, conc |-> 0, free |-> 0]}
    /\ concLeft = load.conc
    /\ StoreEmpty
    /\ QuizIdle

\* A request arrives in slot p: alone, or overlapping (within the budget).
Arrive(p) ==
    /\ FreeSlot(p)
    /\ \/ Alone /\ concLeft' = concLeft
       \/ ~Alone /\ concLeft > 0 /\ concLeft' = concLeft - 1

\* POST /track, line 26: const hitData = await request.json()
TrackStart(p) ==
    /\ nTrack < load.track
    /\ Arrive(p)
    /\ nTrack' = nTrack + 1
    /\ hitData' = [hitData EXCEPT ![p] = TrackBody(nTrack + 1)]
    /\ pc' = [pc EXCEPT ![p] = "track_parsed"]
    /\ hit' = [hit EXCEPT ![p] = NoHit]
    /\ hitsRead' = [hitsRead EXCEPT ![p] = <<>>]
    /\ hits' = [hits EXCEPT ![p] = <<>>]
    /\ totalViews' = [totalViews EXCEPT ![p] = 0]
    /\ totalReg' = [totalReg EXCEPT ![p] = 0]
    /\ resp' = [resp EXCEPT ![p] = NoResp]
    /\ UNCHANGED <<env, kv, now, nReg, okTrack, okReg, mailsSent, load, quizVars, statsVars>>

\* Lines 28-43: the store-configured check, the timestamp, the hit, and the
\* call of get('hits').
TrackStamp(p) ==
    /\ pc[p] = "track_parsed"
    /\ \/ /\ ~env.NUC7_STATS
          /\ resp' = [resp EXCEPT ![p] =
                 [status |-> 500, body |-> "KV Namespace NUC7_STATS not found."]]
          /\ pc' = [pc EXCEPT ![p] = "done"]
          /\ UNCHANGED <<hit, now>>
       \/ /\ env.NUC7_STATS
          /\ hit' = [hit EXCEPT ![p] = MakeHit(hitData[p], now)]
          /\ now' = now + 1
          /\ pc' = [pc EXCEPT ![p] = "track_get_hits"]
          /\ UNCHANGED resp
    /\ UNCHANGED <<env, kv, hitData, hitsRead, hits, totalViews, totalReg, nTrack, nReg,
                   okTrack, okReg, mailsSent, load, concLeft, quizVars, statsVars>>

\* Lines 43-46: get('hits') returns; unshift, pop, and the call of put('hits').
TrackGetHits(p) ==
    /\ pc[p] = "track_get_hits"
    /\ hitsRead' = [hitsRead EXCEPT ![p] = OrEmpty(kv.hits)]
    /\ hits' = [hits EXCEPT ![p] = PopIfOver(Unshift(OrEmpty(kv.hits), hit[p]))]
    /\ pc' = [pc EXCEPT ![p] = "track_put_hits"]
    /\ UNCHANGED <<env, kv, hitData, hit, totalViews, totalReg, resp, now, nTrack, nReg,
                   okTrack, okReg, mailsSent, load, concLeft, quizVars, statsVars>>

\* Line 46: put('hits', JSON.stringify(hits)) is applied; line 49 calls
\* get('totalViews').
TrackPutHits(p) ==
    /\ pc[p] = "track_put_hits"
    /\ kv' = [kv EXCEPT !.hits = Some(hits[p])]
    /\ pc' = [pc EXCEPT ![p] = "track_get_views"]
    /\ UNCHANGED <<env, hitData, hit, hitsRead, hits, totalViews, totalReg, resp, now,
                   nTrack, nReg, okTrack, okReg, mailsSent, load, concLeft, quizVars, statsVars>>

\* Line 49: get('totalViews') returns; parseInt, || 0, + 1; line 50 calls put.
TrackGetViews(p) ==
    /\ pc[p] = "track_get_views"
    /\ totalViews' = [totalViews EXCEPT ![p] = Incremented(kv.totalViews)]
    /\ pc' = [pc EXCEPT ![p] = "track_put_views"]
    /\ UNCHANGED <<env, kv, hitData, hit, hitsRead, hits, totalReg, resp, now, nTrack,
                   nReg, okTrack, okReg, mailsSent, load, concLeft, quizVars, statsVars>>

\* Lines 50-52: put('totalViews', totalViews.toString()) is applied; the
\* request is answered {success: true}.
TrackPutViews(p) ==
    /\ pc[p] = "track_put_views"
    /\ kv' = [kv EXCEPT !.totalViews = Some(NumToString(totalViews[p]))]
    /\ resp' = [resp EXCEPT ![p] = [status |-> 200, body |-> "success"]]
    /\ okTrack' = okTrack + 1
    /\ pc' = [pc EXCEPT ![p] = "done"]
    /\ UNCHANGED <<env, hitData, hit, hitsRead, hits, totalViews, totalReg, now, nTrack,
                   nReg, okReg, mailsSent, load, concLeft, quizVars, statsVars>>

\* POST /send-registration, lines 99-109: the body, the token, and the call
\* of get('totalReg') when the store is configured.
RegStart(p) ==
    /\ nReg < load.reg
    /\ Arrive(p)
    /\ nReg' = nReg + 1
    /\ pc' = [pc EXCEPT ![p] = IF env.NUC7_STATS THEN "reg_get" ELSE "reg_send"]
    /\ hitData' = [hitData EXCEPT ![p] = NoBody]
    /\ hit' = [hit EXCEPT ![p] = NoHit]
    /\ hitsRead' = [hitsRead EXCEPT ![p] = <<>>]
    /\ hits' = [hits EXCEPT ![p] = <<>>]
    /\ totalViews' = [totalViews EXCEPT ![p] = 0]
    /\ totalReg' = [totalReg EXCEPT ![p] = 0]
    /\ resp' = [resp EXCEPT ![p] = NoResp]
    /\ UNCHANGED <<env, kv, now, nTrack, okTrack, okReg, mailsSent, load, quizVars, statsVars>>

\* Line 109: get('totalReg') returns; parseInt, || 0, + 1; line 110 calls put.
RegGet(p) ==
    /\ pc[p] = "reg_get"
    /\ totalReg' = [totalReg EXCEPT ![p] = Incremented(kv.totalReg)]
    /\ pc' = [pc EXCEPT ![p] = "reg_put"]
    /\ UNCHANGED <<env, kv, hitData, hit, hitsRead, hits, totalViews, resp, now, nTrack,
                   nReg, okTrack, okReg, mailsSent, load, concLeft, quizVars, statsVars>>

\* Mutant: the registration count is stored under the key 'totalViews'.
RegPut_views(p) ==
    /\ pc[p] = "reg_put"
    /\ kv' = [kv EXCEPT !.totalViews = Some(NumToString(totalReg[p]))]
    /\ pc' = [pc EXCEPT ![p] = "reg_send"]
    /\ UNCHANGED <<env, hitData, hit, hitsRead, hits, totalViews, totalReg, resp, now,
                   nTrack, nReg, okTrack, okReg, mailsSent, load, concLeft, quizVars, statsVars>>

\* Line 110: put('totalReg', totalReg.toString()) is applied.
RegPut(p) ==
    /\ pc[p] = "reg_put"
    /\ kv' = [kv EXCEPT !.totalReg = Some(NumToString(totalReg[p]))]
    /\ pc' = [pc EXCEPT ![p] = "reg_send"]
    /\ UNCHANGED <<env, hitData, hit, hitsRead, hits, totalViews, totalReg, resp, now,
                   nTrack, nReg, okTrack, okReg, mailsSent, load, concLeft, quizVars, statsVars>>

\* Lines 115-132: the invitation is sent when a mail API key is configured;
\* the request is answered {success: true}.
RegSend(p) ==
    /\ pc[p] = "reg_send"
    /\ mailsSent' = IF env.SENDGRID_API_KEY THEN mailsSent + 1 ELSE mailsSent
    /\ resp' = [resp EXCEPT ![p] = [status |-> 200, body |-> "success"]]
    /\ okReg' = okReg + 1
    /\ pc' = [pc EXCEPT ![p] = "done"]
    /\ UNCHANGED <<env, kv, hitData, hit, hitsRead, hits, totalViews, totalReg, now,
                   nTrack, nReg, okTrack, load, concLeft, quizVars, statsVars>>

Next ==
    \E p \in Slots :
        \/ TrackStart(p)
        \/ TrackStamp(p)
        \/ TrackGetHits(p)
        \/ TrackPutHits(p)
        \/ TrackGetViews(p)
        \/ TrackPutViews(p)

NextMix ==
    \/ Next
    \/ \E p \in Slots :
        \/ RegStart(p)
        \/ RegGet(p)
        \/ RegPut(p)
        \/ RegSend(p)

-----------------------------------------------------------------------------
(* The quiz endpoints: GET /get-questions of the three handlers and POST   *)
(* /validate-quiz of "v2" and "p0", one request against a vault bank.      *)

InitQuiz ==
    /\ env = [NUC7_STATS |-> TRUE, SENDGRID_API_KEY |-> FALSE]
    /\ load = [track |-> 0, reg |-> 0, conc |-> 0, free |-> MaxFree]
    /\ concLeft = 0
    /\ StoreEmpty
    /\ kv.hits = None
    /\ bank \in Banks
    /\ handler = "none"
    /\ qpc = "idle"
    /\ email = "none"
    /\ answers = <<>>
    /\ questions = ArrayOf(<<>>)
    /\ swapsLeft = 0
    /\ score = 0
    /\ qresp = NoQuizResp
    /\ vaultFile = VaultOf(Some(Sha256Hex("nuc7-admin")))
    /\ stats = NoStats
    /\ payload = None

\* GET /get-questions: the vault fetch and `await res.json()`.  A fetch that
\* throws is caught; so is the TypeError of `.sort` on the error object of a
\* non-success status.  Otherwise the sort begins.
GetQuestionsFetch ==
    /\ qpc = "idle"
    /\ handler' \in {"kv", "v2", "p0"}
    /\ \/ /\ questions' = ArrayOf(bank)
          /\ swapsLeft' = MaxSwaps
          /\ qpc' = "sort"
          /\ UNCHANGED qresp
       \/ /\ questions' = ErrorObject
          /\ qresp' = Caught("sort is not a function")
          /\ qpc' = "done"
          /\ UNCHANGED swapsLeft
       \/ /\ qresp' = Caught("fetch failed")
          /\ qpc' = "done"
          /\ UNCHANGED <<questions, swapsLeft>>
    /\ UNCHANGED <<ledgerVars, statsVars, bank, email, answers, score>>

\* questions.sort(() => 0.5 - Math.random()): the comparator is inconsistent,
\* so the order the sort leaves is any permutation; it is built in place, one
\* exchange at a time.
SortSwap ==
    /\ qpc = "sort"
    /\ swapsLeft > 0
    /\ \E i, j \in 1..Len(questions.items) :
          /\ i < j
          /\ questions' = ArrayOf(Swap(questions.items, i, j))
    /\ swapsLeft' = swapsLeft - 1
    /\ UNCHANGED <<ledgerVars, statsVars, bank, handler, qpc, email, answers, score, qresp>>

\* .slice(0, 10), the map of "v2" and "p0", and the response.
GetQuestionsRespond ==
    /\ qpc = "sort"
    /\ qresp' = [NoQuizResp EXCEPT !.status = 200, !.kind = "questions",
                                   !.body = Selected(handler, questions.items)]
    /\ qpc' = "done"
    /\ UNCHANGED <<ledgerVars, statsVars, bank, handler, email, answers, questions, swapsLeft, score>>

\* POST /validate-quiz: the body, the vault fetch and `await vaultRes.json()`.
ValidateFetch ==
    /\ qpc = "idle"
    /\ handler' \in {"v2", "p0"}
    /\ email' \in Emails
    /\ answers' \in Sheets(bank) \cup FreeLists(load.free)
    /\ \/ /\ questions' = ArrayOf(bank)
          /\ qpc' = "score"
          /\ UNCHANGED qresp
       \/ /\ questions' = ErrorObject
          /\ qpc' = "score"
          /\ UNCHANGED qresp
       \/ /\ qresp' = Caught("fetch failed")
          /\ qpc' = "done"
          /\ UNCHANGED questions
    /\ UNCHANGED <<ledgerVars, statsVars, bank, swapsLeft, score>>

\* The scoring loop and the response.  On the error object of a non-success
\* status `questions.find` is not a function: the first answer throws, and an
\* empty answer list scores 0.
ValidateScore ==
    /\ qpc = "score"
    /\ \/ /\ questions.array
          /\ score' = ScoreOf(questions.items, answers)
          /\ qresp' = QuizResponse(email, ScoreOf(questions.items, answers), now)
       \/ /\ ~questions.array
          /\ answers # <<>>
          /\ qresp' = Caught("find is not a function")
          /\ UNCHANGED score
       \/ /\ ~questions.array
          /\ answers = <<>>
          /\ score' = 0
          /\ qresp' = QuizResponse(email, 0, now)
    /\ qpc' = "done"
    /\ UNCHANGED <<ledgerVars, statsVars, bank, handler, email, answers, questions, swapsLeft>>

NextQuiz ==
    \/ GetQuestionsFetch
    \/ SortSwap
    \/ GetQuestionsRespond
    \/ ValidateFetch
    \/ ValidateScore

-----------------------------------------------------------------------------
(* POST /stats of the KV-backed handler and of the stub "p0", GET /ping,   *)
(* OPTIONS and the stub's POST /track: one request at a time, served next  *)
(* to the ledger's request slots.                                          *)

\* POST /stats: const { password } = await request.json(), and the call of the
\* vault fetch.
StatsStart ==
    /\ qpc = "idle"
    /\ handler' \in {"kv", "p0"}
    /\ \E pw \in Passwords : stats' = [NoStats EXCEPT !.password = pw]
    /\ qpc' = "stats_fetch"
    /\ UNCHANGED <<ledgerVars, bank, email, answers, questions, swapsLeft, score, qresp,
                   vaultFile, payload>>

\* The vault fetch returns, and `await vaultRes.json()`.  The KV-backed handler
\* throws on a non-success status and catches what the fetch throws; the stub
\* reads the error object as the vault, and nothing catches what its fetch
\* throws.
StatsFetch ==
    /\ qpc = "stats_fetch"
    /\ \/ /\ stats' = [stats EXCEPT !.vaultRes = VaultRes(TRUE), !.vault = Some(vaultFile)]
          /\ qpc' = "stats_digest"
          /\ UNCHANGED qresp
       \/ /\ handler = "kv"
          /\ stats' = [stats EXCEPT !.vaultRes = VaultRes(FALSE)]
          /\ qresp' = Caught("Vault Access Failed: 404 Not Found")
          /\ qpc' = "done"
       \/ /\ handler = "p0"
          /\ stats' = [stats EXCEPT !.vaultRes = VaultRes(FALSE), !.vault = Some(VaultError)]
          /\ qpc' = "stats_digest"
          /\ UNCHANGED qresp
       \/ /\ qresp' = IF handler = "kv" THEN Caught("fetch failed") ELSE Uncaught
          /\ qpc' = "done"
          /\ UNCHANGED stats
    /\ UNCHANGED <<ledgerVars, bank, handler, email, answers, questions, swapsLeft, score,
                   vaultFile, payload>>

\* The digest of the password and its comparison with the vault's.  On a match
\* the KV-backed handler checks the store binding and calls get('hits'); the
\* stub answers simulated figures.
StatsCompare ==
    /\ qpc = "stats_digest"
    /\ stats' = [stats EXCEPT !.hashHex = Some(Sha256Hex(stats.password))]
    /\ LET match == HashMatches(Sha256Hex(stats.password), stats.vault[1]) IN
       \/ /\ ~match
          /\ qresp' = Unauthorized
          /\ qpc' = "done"
          /\ UNCHANGED payload
       \/ /\ match
          /\ handler = "kv"
          /\ ~env.NUC7_STATS
          /\ qresp' = Caught("NUC7_STATS KV missing.")
          /\ qpc' = "done"
          /\ UNCHANGED payload
       \/ /\ match
          /\ handler = "kv"
          /\ env.NUC7_STATS
          /\ qpc' = "stats_get_hits"
          /\ UNCHANGED <<qresp, payload>>
       \/ /\ match
          /\ handler = "p0"
          /\ qresp' = [NoQuizResp EXCEPT !.status = 200, !.kind = "stats"]
          /\ payload' = Some(SimulatedStats(now))
          /\ qpc' = "done"
    /\ UNCHANGED <<ledgerVars, bank, handler, email, answers, questions, swapsLeft, score,
                   vaultFile>>

\* Line 85: get('hits', 'json') returns, || []; line 86 calls get('totalViews').
StatsGetHits ==
    /\ qpc = "stats_get_hits"
    /\ stats' = [stats EXCEPT !.hits = OrEmpty(kv.hits), !.reads = @ + 1]
    /\ qpc' = "stats_get_views"
    /\ UNCHANGED <<ledgerVars, bank, handler, email, answers, questions, swapsLeft, score,
                   qresp, vaultFile, payload>>

\* Line 86: get('totalViews') returns, || '0'; line 87 calls get('totalReg').
StatsGetViews ==
    /\ qpc = "stats_get_views"
    /\ stats' = [stats EXCEPT !.totalViews = OrZeroString(kv.totalViews), !.reads = @ + 1]
    /\ qpc' = "stats_get_reg"
    /\ UNCHANGED <<ledgerVars, bank, handler, email, answers, questions, swapsLeft, score,
                   qresp, vaultFile, payload>>

\* Lines 87-94: get('totalReg') returns, || '0'; the response.
StatsRespond ==
    /\ qpc = "stats_get_reg"
    /\ stats' = [stats EXCEPT !.reads = @ + 1]
    /\ qresp' = [NoQuizResp EXCEPT !.status = 200, !.kind = "stats"]
    /\ payload' = Some(StatsPayload(stats.hits, stats.totalViews, OrZeroString(kv.totalReg)))
    /\ qpc' = "done"
    /\ UNCHANGED <<ledgerVars, bank, handler, email, answers, questions, swapsLeft, score,
                   vaultFile>>

\* The request has been answered: the invocation ends and its locals are gone.
Return ==
    /\ qpc = "done"
    /\ qpc' = "idle"
    /\ handler' = "none"
    /\ email' = "none"
    /\ answers' = <<>>
    /\ questions' = ArrayOf(<<>>)
    /\ swapsLeft' = 0
    /\ score' = 0
    /\ qresp' = NoQuizResp
    /\ stats' = NoStats
    /\ payload' = None
    /\ UNCHANGED <<ledgerVars, bank, vaultFile>>

\* The ledger filled by /track requests run one at a time, read by /stats
\* requests of either handler at any point.
InitStats ==
    /\ env \in [NUC7_STATS : BOOLEAN, SENDGRID_API_KEY : {FALSE}]
    /\ load = [track |-> MaxTrack, reg |-> 0, conc |-> 0, free |-> 0]
    /\ concLeft = load.conc
    /\ StoreEmpty
    /\ bank = <<>>
    /\ handler = "none"
    /\ qpc = "idle"
    /\ email = "none"
    /\ answers = <<>>
    /\ questions = ArrayOf(<<>>)
    /\ swapsLeft = 0
    /\ score = 0
    /\ qresp = NoQuizResp
    /\ vaultFile \in VaultFiles
    /\ stats = NoStats
    /\ payload = None

NextStats ==
    \/ Next
    \/ StatsStart
    \/ StatsFetch
    \/ StatsCompare
    \/ StatsGetHits
    \/ StatsGetViews
    \/ StatsRespond
    \/ Return

-----------------------------------------------------------------------------
(* Failing calls, and the routes without external calls.                   *)

\* The awaits of the request slots at which a store call is outstanding.
StoreCalls ==
    {"track_get_hits", "track_put_hits", "track_get_views", "track_put_views",
     "reg_get", "reg_put"}

\* The catch block of the KV-backed handler for an exception thrown by the
\* named call: status 500, { error: e.message }.
Thrown(call) == [status |-> 500, body |-> call]

\* Mutant: all-or-nothing; a failure at the counter step takes the hit out of
\* the stored ledger again.
StoreThrows_rollback(p) ==
    /\ pc[p] \in StoreCalls
    /\ kv' = IF pc[p] \in {"track_get_views", "track_put_views"}
             THEN [kv EXCEPT !.hits = Some(hitsRead[p])]
             ELSE kv
    /\ resp' = [resp EXCEPT ![p] = Thrown(pc[p])]
    /\ pc' = [pc EXCEPT ![p] = "done"]
    /\ UNCHANGED <<env, hitData, hit, hitsRead, hits, totalViews, totalReg, now,
                   nTrack, nReg, okTrack, okReg, mailsSent, load, concLeft, quizVars,
                   statsVars>>

\* The outstanding store get or put of slot p rejects (a put that rejects has
\* stored nothing): the exception reaches the catch block of line 152.
StoreThrows(p) ==
    /\ pc[p] \in StoreCalls
    /\ resp' = [resp EXCEPT ![p] = Thrown(pc[p])]
    /\ pc' = [pc EXCEPT ![p] = "done"]
    /\ UNCHANGED <<env, kv, hitData, hit, hitsRead, hits, totalViews, totalReg, now,
                   nTrack, nReg, okTrack, okReg, mailsSent, load, concLeft, quizVars,
                   statsVars>>

\* The call of the mail API is made and throws: the catch block answers.
RegSendThrows(p) ==
    /\ pc[p] = "reg_send"
    /\ env.SENDGRID_API_KEY
    /\ mailsSent' = mailsSent + 1
    /\ resp' = [resp EXCEPT ![p] = Thrown("reg_send")]
    /\ pc' = [pc EXCEPT ![p] = "done"]
    /\ UNCHANGED <<env, kv, hitData, hit, hitsRead, hits, totalViews, totalReg, now,
                   nTrack, nReg, okTrack, okReg, load, concLeft, quizVars, statsVars>>

\* A store get of the /stats request rejects: the catch block answers.
StatsGetThrows ==
    /\ qpc \in {"stats_get_hits", "stats_get_views", "stats_get_reg"}
    /\ qresp' = Caught("KV get failed")
    /\ qpc' = "done"
    /\ UNCHANGED <<ledgerVars, bank, handler, email, answers, questions, swapsLeft, score,
                   statsVars>>

\* GET /ping: the KV-backed handler answers { status: 'online' }; the other
\* two handlers have no such route and answer 404.
Ping ==
    /\ qpc = "idle"
    /\ handler' \in {"kv", "v2", "p0"}
    /\ qresp' = IF handler' = "kv"
                THEN [NoQuizResp EXCEPT !.status = 200, !.kind = "ping"]
                ELSE [NoQuizResp EXCEPT !.status = 404, !.kind = "notfound"]
    /\ qpc' = "done"
    /\ UNCHANGED <<ledgerVars, bank, email, answers, questions, swapsLeft, score,
                   statsVars>>

\* OPTIONS, any path, any handler: the empty response with the CORS headers.
Options ==
    /\ qpc = "idle"
    /\ handler' \in {"kv", "v2", "p0"}
    /\ qresp' = [NoQuizResp EXCEPT !.status = 200, !.kind = "options"]
    /\ qpc' = "done"
    /\ UNCHANGED <<ledgerVars, bank, email, answers, questions, swapsLeft, score,
                   statsVars>>

\* POST /track of the stub "p0": the body is read and { success: true } is
\* answered; nothing is stored.
StubTrack ==
    /\ qpc = "idle"
    /\ handler' = "p0"
    /\ qresp' = [NoQuizResp EXCEPT !.status = 200, !.kind = "track", !.success = TRUE]
    /\ qpc' = "done"
    /\ UNCHANGED <<ledgerVars, bank, email, answers, questions, swapsLeft, score,
                   statsVars>>

\* Every route of the three handlers, one request at a time, with calls that
\* may fail, from the empty store.
InitServe ==
    /\ env \in [NUC7_STATS : BOOLEAN, SENDGRID_API_KEY : BOOLEAN]
    /\ load = [track |-> MaxServeTrack, reg |-> MaxServeReg, conc |-> 0,
               free |-> 1]
    /\ concLeft = load.conc
    /\ StoreEmpty
    /\ bank = BankOf(2)
    /\ handler = "none"
    /\ qpc = "idle"
    /\ email = "none"
    /\ answers = <<>>
    /\ questions = ArrayOf(<<>>)
    /\ swapsLeft = 0
    /\ score = 0
    /\ qresp = NoQuizResp
    /\ vaultFile \in VaultFiles
    /\ stats = NoStats
    /\ payload = None

\* No request is being served.
Quiet == qpc = "idle" /\ \A p \in Slots : ~InFlight(p)

NextServe ==
    \/ Quiet /\ \E p \in Slots : TrackStart(p) \/ RegStart(p)
    \/ Quiet /\ (StatsStart \/ GetQuestionsFetch \/ ValidateFetch)
    \/ Quiet /\ (Ping \/ Options \/ StubTrack)
    \/ \E p \in Slots :
        \/ TrackStamp(p)
        \/ TrackGetHits(p)
        \/ TrackPutHits(p)
        \/ TrackGetViews(p)
        \/ TrackPutViews(p)
        \/ RegGet(p)
        \/ RegPut(p)
        \/ RegSend(p)
        \/ StoreThrows(p)
        \/ RegSendThrows(p)
    \/ StatsFetch
    \/ StatsCompare
    \/ StatsGetHits
    \/ StatsGetViews
    \/ StatsRespond
    \/ StatsGetThrows
    \/ SortSwap
    \/ GetQuestionsRespond
    \/ ValidateScore
    \/ Return

Spec == Init /\ [][Next]_vars

SpecQuiz == InitQuiz /\ [][NextQuiz]_vars

SpecMix == InitMix /\ [][NextMix]_vars

SpecStats == InitStats /\ [][NextStats]_vars

SpecServe == InitServe /\ [][NextServe]_vars

-----------------------------------------------------------------------------
(* Properties of the hit ledger and the counters. *)

\* The stored ledger and counters, as a reader sees them.
Ledger == OrEmpty(kv.hits)
Views == IF kv.totalViews = None THEN 0 ELSE DigitsValue(kv.totalViews[1])
Regs == IF kv.totalReg = None THEN 0 ELSE DigitsValue(kv.totalReg[1])

\* No request has overlapped another so far.
NoOverlapYet == concLeft = load.conc

\* Slot p holds a /track request that has called put('hits').
PutCalled(p) ==
    \/ pc[p] \in {"track_put_hits", "track_get_views", "track_put_views"}
    \/ pc[p] = "done" /\ resp[p].status = 200 /\ hit[p] # NoHit

\* Slot p holds a /track request whose put('hits') has been applied.
PutApplied(p) == PutCalled(p) /\ pc[p] # "track_put_hits"

\* Slot p holds a /track request that was answered {success: true}.
TrackDone(p) == pc[p] = "done" /\ resp[p].status = 200 /\ hit[p] # NoHit

\* s without its last element
Front(s) == SubSeq(s, 1, Len(s) - 1)

\* C1: the stored hit ledger never holds more than 50 hits, under any
\* interleaving of /track requests from an empty store; every list a request
\* writes has that request's hit at index 0, followed by the list it read
\* either whole or without its last element only.
C1_LedgerBounded ==
    /\ Len(Ledger) <= 50
    /\ \A p \in Slots : PutCalled(p) =>
          /\ Len(hits[p]) <= 50
          /\ hits[p][1] = hit[p]
          /\ Tail(hits[p]) \in {hitsRead[p], Front(hitsRead[p])}

\* C1: requests have overlapped, and a request that read a full ledger has
\* written back a full ledger.
C1_Witness ==
    /\ ~NoOverlapYet
    /\ \E p \in Slots : PutApplied(p) /\ Len(hitsRead[p]) = 50 /\ kv.hits = Some(hits[p])
    /\ Len(Ledger) = 50

\* C2: a /track request run alone against a stored ledger L leaves [hit] ++ L
\* when L holds fewer than 50 hits, and [hit] ++ (L without its last hit),
\* of length 50, when L holds 50.
C2_RecordHitAlone ==
    \A p \in Slots : NoOverlapYet /\ PutApplied(p) =>
        LET L == hitsRead[p] IN
        /\ Len(L) < 50 => Ledger = <<hit[p]>> \o L /\ Len(Ledger) = Len(L) + 1
        /\ Len(L) = 50 => Ledger = <<hit[p]>> \o SubSeq(L, 1, 49) /\ Len(Ledger) = 50
        /\ Len(L) <= 50

\* C2: a request run alone against a ledger of 50 hits has been answered.
C2_Witness ==
    /\ NoOverlapYet
    /\ TrackDone(1)
    /\ Len(hitsRead[1]) = 50
    /\ Len(Ledger) = 50
    /\ hitsRead[1][50] \notin {Ledger[i] : i \in 1..50}

Min(a, b) == IF a < b THEN a ELSE b

\* C3: after k /track requests run one after the other from an empty ledger,
\* the ledger holds the last min(k, 50) hits, the most recent first; after 51
\* it holds hits #51 down to #2 and not hit #1.
C3_SequentialLedger ==
    (NoOverlapYet /\ env.NUC7_STATS /\ \A p \in Slots : ~InFlight(p)) =>
        /\ Len(Ledger) = Min(nTrack, 50)
        /\ \A i \in 1..Len(Ledger) : Ledger[i].path = TrackBody(nTrack - i + 1).path
        /\ nTrack = 51 =>
              /\ Len(Ledger) = 50
              /\ Ledger[1].path = 51
              /\ Ledger[50].path = 2
              /\ \A i \in 1..50 : Ledger[i].path # 1

\* C3: 51 requests have run one after the other.
C3_Witness ==
    /\ NoOverlapYet
    /\ env.NUC7_STATS
    /\ nTrack = 51
    /\ okTrack = 51
    /\ TrackDone(1)
    /\ Len(Ledger) = 50

\* C4: the read-modify-write of /track is not atomic.  Whenever the two
\* requests in flight have read the same ledger snapshot and both have written,
\* the stored ledger is the snapshot with one of the two hits in front and
\* without the other hit; whenever both have been answered after reading the
\* same totalViews value, the stored counter is that value plus one, which is
\* less than the number of requests answered.
C4_LostUpdate ==
    /\ (PutApplied(1) /\ PutApplied(2) /\ hitsRead[1] = hitsRead[2]) =>
          \E p \in Slots :
              /\ Ledger = SubSeq(<<hit[p]>> \o hitsRead[p], 1, Min(Len(hitsRead[p]) + 1, 50))
              /\ hit[3 - p] \notin {Ledger[i] : i \in 1..Len(Ledger)}
    /\ (TrackDone(1) /\ TrackDone(2) /\ totalViews[1] = totalViews[2]) =>
          /\ Views = totalViews[1]
          /\ Views < okTrack

\* C4: from the empty store two requests have read the same (empty) ledger and
\* the same (absent) counter, both were answered, and the store holds one hit
\* and a count of one.
C4_Witness ==
    /\ TrackDone(1) /\ TrackDone(2)
    /\ hitsRead[1] = <<>> /\ hitsRead[2] = <<>>
    /\ totalViews[1] = 1 /\ totalViews[2] = 1
    /\ okTrack = 2
    /\ Len(Ledger) = 1
    /\ Views = 1

\* C5: the stored values of totalViews and totalReg never decrease from one
\* state to the next, whatever the interleaving of /track and
\* /send-registration requests.
C5_CountersNeverDecrease ==
    [][Views' >= Views /\ Regs' >= Regs]_vars

\* C6: when requests run one at a time from an empty store, an absent counter
\* is read as 0, every answered /track raises totalViews by one and every
\* answered /send-registration (store configured) raises totalReg by one: after
\* n such requests the counter is n.
C6_SingleWriterCounters ==
    (NoOverlapYet /\ env.NUC7_STATS) =>
        /\ \A p \in Slots : pc[p] = "track_put_views" => totalViews[p] = okTrack + 1
        /\ \A p \in Slots : pc[p] = "reg_put" => totalReg[p] = okReg + 1
        /\ (\A p \in Slots : pc[p] # "reg_send") => Regs = okReg
        /\ Views = okTrack
        /\ okTrack = 0 => kv.totalViews = None
        /\ okTrack > 0 => kv.totalViews = Some(NumToString(okTrack))

\* C6: twelve /track and twelve /send-registration requests have run one at a
\* time and the counters hold "12".
C6_Witness ==
    /\ NoOverlapYet
    /\ env.NUC7_STATS
    /\ okTrack = 12 /\ okReg = 12
    /\ kv.totalViews = Some(<<1, 2>>)
    /\ kv.totalReg = Some(<<1, 2>>)

-----------------------------------------------------------------------------
(* Properties of the quiz endpoints. *)

\* The /validate-quiz request has been answered after its scoring loop ran
\* over the fetched bank.
Scored ==
    /\ qpc = "done"
    /\ handler \in {"v2", "p0"}
    /\ questions = ArrayOf(bank)
    /\ qresp.kind = "quiz" \/ qresp.error = Some("btoa: invalid character")

\* The entries of an answer list that name a question of the bank and give its
\* correct index.
CorrectEntries(b, as) ==
    {i \in 1..Len(as) :
        \E j \in 1..Len(b) : b[j].id = as[i].id /\ b[j].answer = as[i].choice}

Reverse(as) == [i \in 1..Len(as) |-> as[Len(as) + 1 - i]]

\* Every reordering of a list of up to four answers; of a longer list, its
\* reversal and its rotation by one.
Reorderings(as) ==
    IF Len(as) <= 4
    THEN {[i \in 1..Len(as) |-> as[f[i]]] :
            f \in {g \in [1..Len(as) -> 1..Len(as)] :
                      \A i, j \in 1..Len(as) : g[i] = g[j] => i = j}}
    ELSE {Reverse(as), Tail(as) \o <<Head(as)>>}

\* C7: every /validate-quiz response that reports a score has success true
\* exactly when the score is at least 7; every response has a token exactly
\* when it has success true (8 correct of 10: success, score 8, a token; 5
\* correct of 10: no success, score 5, no token).
C7_PassIffThreshold ==
    /\ qresp.kind = "quiz" =>
          /\ qresp.success <=> qresp.score >= 7
          /\ qresp.status = 200
    /\ qresp.token # None <=> qresp.success
    /\ (Scored /\ qresp.kind = "quiz" /\ UniqueIds(bank) /\ Len(answers) = 10) =>
          /\ Cardinality(CorrectEntries(bank, answers)) = 8 =>
                qresp.success /\ qresp.score = 8 /\ qresp.token # None
          /\ Cardinality(CorrectEntries(bank, answers)) = 5 =>
                ~qresp.success /\ qresp.score = 5 /\ qresp.token = None

\* C7: ten answers, eight of them correct, were answered with success, score 8
\* and a token.
C7_Witness ==
    /\ Scored
    /\ Len(bank) = 10
    /\ Len(answers) = 10
    /\ Cardinality(CorrectEntries(bank, answers)) = 8
    /\ qresp.success
    /\ qresp.score = 8
    /\ qresp.token # None

\* C8: for a bank with unique ids the score is the number of answer entries
\* whose id is in the bank and whose choice is that question's correct index;
\* unknown ids add nothing, repeated ids count each time, the empty list
\* scores 0, and every reordering of the list scores the same.
C8_ScoreIsMatchCount ==
    (Scored /\ UniqueIds(bank)) =>
        /\ score = Cardinality(CorrectEntries(bank, answers))
        /\ qresp.kind = "quiz" => qresp.score = score
        /\ answers = <<>> => score = 0
        /\ \A r \in Reorderings(answers) : ScoreOf(questions.items, r) = score

\* C8: a list with a repeated id, an unknown id and a wrong choice has been
\* scored: both copies of the repeated entry count.
C8_Witness ==
    /\ Scored
    /\ bank = BankOf(2)
    /\ answers = <<Answer(1, 1), Answer(99, 0), Answer(1, 1), Answer(1, 0)>>
    /\ qresp.kind = "quiz"
    /\ qresp.score = 2

\* C9: every element of the array a /get-questions handler returns carries
\* only id, question and options, and no answer key.
C9_NoAnswerKey ==
    qresp.kind = "questions" =>
        \A i \in 1..Len(qresp.body) :
            DOMAIN qresp.body[i] = {"id", "question", "options"}

\* C10: for a bank of b questions with unique ids, /get-questions returns
\* min(10, b) questions with pairwise distinct ids, all of the bank, whatever
\* order the sort left; for b < 10 it returns all b, and it does not fail.
C10_SampleSize ==
    /\ (qresp.kind = "questions" /\ UniqueIds(bank)) =>
          LET body == qresp.body
              ids == {body[i].id : i \in 1..Len(body)}
          IN  /\ qresp.status = 200
              /\ Len(body) = Min(10, Len(bank))
              /\ \A i, j \in 1..Len(body) : body[i].id = body[j].id => i = j
              /\ ids \subseteq {bank[i].id : i \in 1..Len(bank)}
              /\ Len(bank) < 10 => ids = {bank[i].id : i \in 1..Len(bank)}
    /\ (qpc = "done" /\ email = "none" /\ questions.array
          /\ qresp.error # Some("fetch failed")) =>
          qresp.kind = "questions" /\ qresp.status = 200

\* C10: a bank of 11 questions was sampled after the sort moved its first
\* question out of the first ten.
C10_Witness ==
    /\ qresp.kind = "questions"
    /\ Len(bank) = 11
    /\ Len(qresp.body) = 10
    /\ \A i \in 1..10 : qresp.body[i].id # 1

-----------------------------------------------------------------------------
(* Properties of POST /stats. *)

\* The /stats request has compared the password's digest with the vault's.
Compared == stats.hashHex # None

\* The digest of the submitted password is the digest vault.json stores.
DigestsEqual == vaultFile.adminPasswordHash = Some(Sha256Hex(stats.password))

\* C11: a POST /stats request of either handler is answered with a stats
\* payload only if the SHA-256 hex digest of the submitted password equals the
\* adminPasswordHash the vault stores; whenever the comparison finds the
\* digests different, the response is HTTP 401 without a payload and the
\* request has read nothing from the stats store.
C11_StatsOnlyWithPassword ==
    /\ payload # None => DigestsEqual /\ Compared /\ qresp.status = 200
    /\ stats.reads > 0 => DigestsEqual /\ Compared
    /\ (Compared /\ ~DigestsEqual) =>
          /\ qpc = "done"
          /\ qresp.status = 401
          /\ qresp.kind = "unauthorized"
          /\ payload = None
          /\ stats.reads = 0

\* C11: the KV-backed handler has answered 401 to the administrator's password
\* in the wrong case while the store held hits, and read nothing.
C11_Witness ==
    /\ handler = "kv"
    /\ qpc = "done"
    /\ stats.password = "NUC7-ADMIN"
    /\ vaultFile = VaultOf(Some(Sha256Hex("nuc7-admin")))
    /\ Len(Ledger) > 0
    /\ qresp.status = 401
    /\ stats.reads = 0

\* C12: in every POST /stats handler, when the vault fetch ends with a
\* non-success status the hash comparison is never reached and the request
\* ends with an HTTP 500 error response.
C12_VaultFailureStops ==
    stats.vaultRes = VaultRes(FALSE) =>
        /\ ~Compared
        /\ qpc = "done" => qresp.status = 500 /\ qresp.kind = "error"

\* C18: every successful /stats response of the KV-backed handler carries
\* activeUsers = max(1, floor(h / 4)) for the length h of the ledger the
\* request read: a value from 1 to 12, and 1 for an empty or absent ledger.
C18_ActiveUsers ==
    (qresp.kind = "stats" /\ handler = "kv") =>
        LET h == Len(stats.hits)
            a == payload[1].activeUsers
        IN  /\ payload[1].hits = stats.hits
            /\ h <= 50
            /\ a >= 1 /\ a <= 12
            /\ h < 4 => a = 1
            /\ h >= 4 => 4 * a <= h /\ h < 4 * a + 4
            /\ h = 0 => a = 1

\* C18: a /stats request has read a ledger of 50 hits and reported 12 active
\* users.
C18_Witness ==
    /\ qresp.kind = "stats"
    /\ handler = "kv"
    /\ Len(stats.hits) = 50
    /\ payload[1].activeUsers = 12

-----------------------------------------------------------------------------
(* Properties of the routes served one request at a time, with failures.   *)

TrackPcs ==
    {"track_parsed", "track_get_hits", "track_put_hits", "track_get_views",
     "track_put_views"}
RegPcs == {"reg_get", "reg_put", "reg_send"}

\* Slot p holds a /track request, in flight or answered.
IsTrack(p) == pc[p] # "idle" /\ hitData[p] # NoBody

\* Slot p holds a /send-registration request, in flight or answered.
IsReg(p) == pc[p] # "idle" /\ hitData[p] = NoBody

\* C13: with a mail API key configured, every /send-registration request that
\* has ended has made its call of the mail API, also when its store get or put
\* for totalReg failed.
C13_MailDespiteStoreFailure ==
    (env.SENDGRID_API_KEY /\ \A p \in Slots : ~InFlight(p)) => mailsSent = nReg

\* C14: with the store binding absent, each ledger operation answers HTTP 500
\* with a configuration-error message, which is not its answer for a
\* configured, empty store: /track, /stats with the right password, and
\* /send-registration.
C14_UnconfiguredStoreReported ==
    ~env.NUC7_STATS =>
        /\ \A p \in Slots : (IsTrack(p) /\ pc[p] = "done") =>
              resp[p] = [status |-> 500, body |-> "KV Namespace NUC7_STATS not found."]
        /\ (handler = "kv" /\ qpc = "done" /\ Compared /\ DigestsEqual) =>
              qresp = Caught("NUC7_STATS KV missing.")
        /\ \A p \in Slots : (IsReg(p) /\ pc[p] = "done") =>
              resp[p].status = 500 /\ resp[p].body # "success"

\* C15: in every handler, a request during which a vault fetch, a store call
\* or an outbound call failed is answered HTTP 500 with a JSON error body, and
\* no exception escapes the handler.
C15_FailuresCaught ==
    /\ qresp.kind # "uncaught"
    /\ (qpc = "done" /\ stats.vaultRes = VaultRes(FALSE)) =>
          qresp.status = 500 /\ qresp.kind = "error" /\ qresp.error # None
    /\ (qpc = "done" /\ questions = ErrorObject) =>
          qresp.status = 500 /\ qresp.kind = "error" /\ qresp.error # None

\* The step is taken by a /track request, by a /send-registration request, or
\* by the single request of the other routes.
TrackStep == \E p \in Slots : pc'[p] # pc[p] /\ (pc[p] \in TrackPcs \/ pc'[p] \in TrackPcs)
RegStep == \E p \in Slots : pc'[p] # pc[p] /\ (pc[p] \in RegPcs \/ pc'[p] \in RegPcs)
OtherStep == qpc' # qpc

\* C16: a step of a /track request leaves 'totalReg' as it is; a step of a
\* /send-registration request leaves 'hits' and 'totalViews' as they are; a
\* step of /stats, /ping, /get-questions, /validate-quiz or OPTIONS leaves
\* every key as it is.
C16_Frames ==
    [][/\ TrackStep => kv'.totalReg = kv.totalReg
       /\ RegStep => kv'.hits = kv.hits /\ kv'.totalViews = kv.totalViews
       /\ OtherStep => kv' = kv]_vars

\* C16: a /stats request has been answered from a store that /track and
\* /send-registration requests have written, and the store is as they left it.
C16_Witness ==
    /\ qresp.kind = "stats"
    /\ handler = "kv"
    /\ okTrack = 2
    /\ okReg = 1
    /\ kv.totalViews = Some(<<2>>)
    /\ kv.totalReg = Some(<<1>>)
    /\ Len(Ledger) = 2
    /\ payload = Some(StatsPayload(Ledger, <<2>>, <<1>>))

\* C17: the timestamps of the stored hits never increase from the front of
\* the ledger to its back, whatever the interleaving of /track requests.
C17_MostRecentFirst ==
    \A i, j \in 1..Len(Ledger) : i < j => Ledger[i].timestamp >= Ledger[j].timestamp

\* C19: when /track requests have run one at a time from an empty store, the
\* ledger holds min(totalViews, 50) hits after each request; under any
\* interleaving totalViews is at most the number of /track requests started
\* and no request's hit is in the ledger twice.
C19_LedgerAndCounter ==
    /\ (NoOverlapYet /\ \A p \in Slots : ~InFlight(p)) => Len(Ledger) = Min(Views, 50)
    /\ Views <= nTrack
    /\ Cardinality({Ledger[i].path : i \in 1..Len(Ledger)}) = Len(Ledger)

\* C19: 52 requests were answered, the last two interleaved: the ledger is
\* full and the counter is behind.
C19_Witness ==
    /\ ~NoOverlapYet
    /\ nTrack = 52
    /\ okTrack = 52
    /\ Views = 51
    /\ Len(Ledger) = 50

\* The awaits of a /track request, in the order of the code.
TrackOrder ==
    <<"track_parsed", "track_get_hits", "track_put_hits", "track_get_views",
      "track_put_views", "done">>

\* C20: a /track request passes the store-configured check, the ledger get,
\* the ledger put, the totalViews get and the totalViews put in this order and
\* is then answered; { success: true } is answered only after both puts were
\* applied; a store failure at the counter step is answered HTTP 500 while the
\* ledger holds the new hit at its front and totalViews is not raised.
C20_TrackStepOrder ==
    [][\A p \in Slots :
         /\ (pc[p] \in TrackPcs /\ pc'[p] # pc[p]) =>
               \/ \E k \in 1..5 : pc[p] = TrackOrder[k] /\ pc'[p] = TrackOrder[k + 1]
               \/ pc'[p] = "done" /\ resp'[p].status = 500
         /\ (pc[p] = "track_parsed" /\ pc'[p] # pc[p]) =>
               /\ kv' = kv
               /\ pc'[p] = "done" <=> ~env.NUC7_STATS
         /\ (pc[p] = "track_put_views" /\ pc'[p] = "done" /\ resp'[p].body = "success") =>
               /\ resp'[p].status = 200
               /\ kv'.hits = Some(hits[p])
               /\ kv'.totalViews = Some(NumToString(totalViews[p]))
               /\ Views' = Views + 1
         /\ (pc'[p] = "done" /\ resp'[p].body = "success" /\ IsTrack(p)) =>
               pc[p] \in {"track_put_views", "done"}
         /\ (pc[p] \in {"track_get_views", "track_put_views"} /\ pc'[p] = "done"
               /\ resp'[p].body # "success") =>
               /\ resp'[p].status = 500
               /\ Len(Ledger') >= 1
               /\ Ledger'[1] = hit[p]
               /\ Tail(Ledger') \in {hitsRead[p], Front(hitsRead[p])}
               /\ Views' = Views
               /\ Views' = okTrack']_vars

\* C20: the second /track request failed at the get of totalViews: it was
\* answered 500, its hit is in the ledger and the counter still says 1.
C20_Witness ==
    /\ pc[1] = "done"
    /\ resp[1] = Thrown("track_get_views")
    /\ Len(Ledger) = 2
    /\ Ledger[1] = hit[1]
    /\ Views = 1
    /\ okTrack = 1
    /\ nTrack = 2

====
